---- MODULE Spec2Model ----
(***************************************************************************)
(* cismute: safe trivial transmutes in generic context.                    *)
(*                                                                         *)
(* A carrier is a value of a static carrier type (an owned T, a &T or a    *)
(* &mut T) together with its bit pattern: the value's bits for an owned    *)
(* carrier, the referent's address for a reference.  A thread is a caller  *)
(* of the crate: it enters one of the public entry points, the call runs   *)
(* step by step (value's comparison of the TypeIds, the transmute through  *)
(* the union or the Err return, dispatch's branch after branch), the       *)
(* caller drops what it got back and may call again.                       *)
(*                                                                         *)
(* value and Branches::dispatch are also given as operators (the function  *)
(* each call computes); the actions are their execution, in steps that     *)
(* other threads' steps interleave with.                                   *)
(***************************************************************************)
EXTENDS Integers, Sequences, FiniteSets, TLC

VARIABLES
    pc,          \* per thread: where the thread's call stands
    call,        \* per thread: the entry point and its type and value arguments
    val,         \* per thread: the local `val` (the carrier, until moved out)
    idx,         \* per thread: the branch of the tuple / macro list being tried
    ret,         \* per thread: the Result last returned (by value, then by the call)
    tested,      \* per thread: the branches value was called for, in order
    handled,     \* per thread: the branches whose handler was invoked, in order
    holders,     \* per thread: the places that hold the carrier now
    drops,       \* per thread: destructor runs on the carried value
    transmutes   \* per thread: generic_transmute calls made by the call

vars == <<pc, call, val, idx, ret, tested, handled, holders, drops, transmutes>>

----------------------------------------------------------------------------
(* Bounds of the model *)

\* longest branch list of a switch in the sequential specification
MaxBranches == 3

\* longest branch list of a switch in the concurrent specification
ConcMaxBranches == 2

\* the static types the callers instantiate T and U with: i32, char, [i32; 2]
Types == {"i32", "char", "arr"}

\* the types of the concurrent specification's workload
ConcTypes == {"i32", "char"}

\* handler bodies (closures of switch, arm expressions of switch!)
Handlers == {"f", "g"}

\* handler bodies of the concurrent specification's workload
ConcHandlers == {"f"}

\* bit patterns of a carrier: an owned value's bits, a reference's address
BitPatterns == {1, 2}

\* the callers: one in the sequential specification, two in the concurrent one
SeqThreads == {1}

ConcThreads == {1, 2}

----------------------------------------------------------------------------
(* Types, carriers, results *)

Shapes == {"owned", "ref", "mut"}

\* the carrier types T, &T, &mut T
CarrierTypes == [shape : Shapes, ty : Types]

CarrierType(shape, T) == [shape |-> shape, ty |-> T]

Carrier(shape, T, bits) == [shape |-> shape, ty |-> T, bits |-> bits]

TypeOf(c) == [shape |-> c.shape, ty |-> c.ty]

\* a local that holds nothing: not yet bound, or moved out of
Moved == [shape |-> "-", ty |-> "-", bits |-> 0]

NoType == [shape |-> "-", ty |-> "-"]

\* Result<_, _>: Ok of a carrier (value) or of a handler's result (switch), Err of a carrier
Ok(x) == [tag |-> "Ok", v |-> x]

Err(x) == [tag |-> "Err", v |-> x]

NoResult == [tag |-> "-", v |-> Moved]

\* core::any::TypeId::of::<T>(): one token per static type
TypeId(T) ==
    CASE T = "i32" -> 101
      [] T = "char" -> 102
      [] T = "arr" -> 103

\* core::mem::size_of::<T>()
SizeOf(T) ==
    CASE T = "i32" -> 4
      [] T = "char" -> 4
      [] T = "arr" -> 8

\* TypeId::of::<T>() == TypeId::of::<U>() with sizes in place of the tokens
SameType_by_layout(T, U) == SizeOf(T) = SizeOf(U)

\* TypeId::of::<T>() == TypeId::of::<U>()
SameType(T, U) == TypeId(T) = TypeId(U)

\* unsafe impl Cismutable<T, U, &U> for &T / <T, U, &mut U> for &mut T / <T, U, U> for T: 'static,
\* with the impl for &mut T written without its `mut`
Cismutable_mut_to_shared(T, U, RefT, RefU) ==
    \/ RefT = CarrierType("ref", T) /\ RefU = CarrierType("ref", U)
    \/ RefT = CarrierType("mut", T) /\ RefU = CarrierType("ref", U)
    \/ RefT = CarrierType("owned", T) /\ RefU = CarrierType("owned", U)

\* RefT: Cismutable<'a, T, U, RefU>
Cismutable(T, U, RefT, RefU) ==
    \/ RefT = CarrierType("ref", T) /\ RefU = CarrierType("ref", U)
    \/ RefT = CarrierType("mut", T) /\ RefU = CarrierType("mut", U)
    \/ RefT = CarrierType("owned", T) /\ RefU = CarrierType("owned", U)

\* the RefU the compiler infers from RefT: Cismutable<'a, T, U, _>
InferRefU(T, U, RefT) ==
    CHOOSE RefU \in CarrierTypes : Cismutable(T, U, RefT, RefU)

\* a transmute that reads `to` out of a copy of `from` and lets `from` go out of scope
generic_transmute_drops_from(from, RefU) ==
    [to |-> Carrier(RefU.shape, RefU.ty, from.bits),
     dropped |-> IF from.shape = "owned" THEN 1 ELSE 0]

\* a transmute that builds a fresh RefU instead of reading `from`'s bits
generic_transmute_zeroed(from, RefU) ==
    [to |-> Carrier(RefU.shape, RefU.ty, 0), dropped |-> 0]

\* generic_transmute::<RefT, RefU>(from): `from` goes into the union under ManuallyDrop
\* (no destructor runs on it), `to` is read out of the same bytes
generic_transmute(from, RefU) ==
    [to |-> Carrier(RefU.shape, RefU.ty, from.bits), dropped |-> 0]

\* value::<T, U, RefT, RefU>(val)
value(T, U, RefU, v) ==
    IF SameType(T, U)
    THEN Ok(generic_transmute(v, RefU).to)
    ELSE Err(v)

\* a handler's result: the handler's body applied to the carrier it was given
Apply(f, x) == [f |-> f, x |-> x]

RECURSIVE dispatch_stop_at_mismatch(_, _, _, _)
\* dispatch that gives up at the first branch that does not match
dispatch_stop_at_mismatch(fs, i, T, v) ==
    IF i > Len(fs)
    THEN Err(v)
    ELSE LET r == value(T, fs[i].U, InferRefU(T, fs[i].U, TypeOf(v)), v)
         IN  IF r.tag = "Ok" THEN Ok(Apply(fs[i].f, r.v)) ELSE Err(r.v)

RECURSIVE dispatch(_, _, _, _)
\* Branches::dispatch of the tuple fs, from its i-th element on
dispatch(fs, i, T, v) ==
    IF i > Len(fs)
    THEN Err(v)
    ELSE LET r == value(T, fs[i].U, InferRefU(T, fs[i].U, TypeOf(v)), v)
         IN  IF r.tag = "Ok"
             THEN Ok(Apply(fs[i].f, r.v))
             ELSE dispatch(fs, i + 1, T, r.v)

\* switch(val, branches)
switch(v, branches, T) == dispatch(branches, 1, T, v)

----------------------------------------------------------------------------
(* The callers' workload *)

Threads == DOMAIN pc

Concurrent == Cardinality(Threads) > 1

WTypes == IF Concurrent THEN ConcTypes ELSE Types

WBits(t) == IF Concurrent THEN {t} ELSE BitPatterns

WBranchLists ==
    IF Concurrent
    THEN UNION {[1..k -> [U : ConcTypes, f : ConcHandlers]] : k \in 0..ConcMaxBranches}
    ELSE UNION {[1..k -> [U : Types, f : Handlers]] : k \in 0..MaxBranches}

ValueOps == {"owned", "reference", "mutable", "value", "value_with"}

Ready(t) == pc[t] = "idle"

\* the thread's locals at the entry of a call
Enter(t, c, at) ==
    /\ pc' = [pc EXCEPT ![t] = at]
    /\ call' = [call EXCEPT ![t] = c]
    /\ val' = [val EXCEPT ![t] = c.arg]
    /\ idx' = [idx EXCEPT ![t] = 1]
    /\ ret' = [ret EXCEPT ![t] = NoResult]
    /\ tested' = [tested EXCEPT ![t] = <<>>]
    /\ handled' = [handled EXCEPT ![t] = <<>>]
    /\ holders' = [holders EXCEPT ![t] = {"val"}]
    /\ drops' = [drops EXCEPT ![t] = 0]
    /\ transmutes' = [transmutes EXCEPT ![t] = 0]

ValueCall(op, T, U, RefU, arg) ==
    [op |-> op, T |-> T, U |-> U, RefU |-> RefU, branches |-> <<>>, arg |-> arg]

SwitchCall(op, T, branches, arg) ==
    [op |-> op, T |-> T, U |-> "-", RefU |-> NoType, branches |-> branches, arg |-> arg]

NoCall == SwitchCall("-", "-", <<>>, Moved)

\* owned::<T, U>(val) = value(val) at RefT = T, RefU = U
owned(t) ==
    /\ Ready(t)
    /\ \E T \in WTypes, U \in WTypes, b \in WBits(t) :
         /\ Cismutable(T, U, CarrierType("owned", T), CarrierType("owned", U))
         /\ Enter(t, ValueCall("owned", T, U, CarrierType("owned", U),
                               Carrier("owned", T, b)), "value")

\* reference::<T, U>(val) = value::<'a, T, U, _, _>(val) at RefT = &T, RefU = &U
reference(t) ==
    /\ Ready(t)
    /\ \E T \in WTypes, U \in WTypes, b \in WBits(t) :
         /\ Cismutable(T, U, CarrierType("ref", T), CarrierType("ref", U))
         /\ Enter(t, ValueCall("reference", T, U, CarrierType("ref", U),
                               Carrier("ref", T, b)), "value")

\* mutable::<T, U>(val) = value::<'a, T, U, _, _>(val) at RefT = &mut T, RefU = &mut U
mutable(t) ==
    /\ Ready(t)
    /\ \E T \in WTypes, U \in WTypes, b \in WBits(t) :
         /\ Cismutable(T, U, CarrierType("mut", T), CarrierType("mut", U))
         /\ Enter(t, ValueCall("mutable", T, U, CarrierType("mut", U),
                               Carrier("mut", T, b)), "value")

\* a call of value::<T, U, RefT, RefU>(val) that type-checks
value_call(t) ==
    /\ Ready(t)
    /\ \E T \in WTypes, U \in WTypes, s \in Shapes, b \in WBits(t), RefU \in CarrierTypes :
         /\ Cismutable(T, U, CarrierType(s, T), RefU)
         /\ Enter(t, ValueCall("value", T, U, RefU, Carrier(s, T, b)), "value")

\* value_with(Pair::<(T, U)>, val) = value::<T, U, RefT, RefU>(val)
value_with(t) ==
    /\ Ready(t)
    /\ \E T \in WTypes, U \in WTypes, s \in Shapes, b \in WBits(t), RefU \in CarrierTypes :
         /\ Cismutable(T, U, CarrierType(s, T), RefU)
         /\ Enter(t, ValueCall("value_with", T, U, RefU, Carrier(s, T, b)), "value")

\* a call of switch(val, branches) that type-checks: branches.dispatch(val)
switch_call(t) ==
    /\ Ready(t)
    /\ \E T \in WTypes, s \in Shapes, b \in WBits(t), fs \in WBranchLists :
         /\ \A i \in 1..Len(fs) :
              \E RefU \in CarrierTypes : Cismutable(T, fs[i].U, CarrierType(s, T), RefU)
         /\ Enter(t, SwitchCall("switch", T, fs, Carrier(s, T, b)), "dispatch")

\* an expansion of switch!(val; T => { x: U => expr, ... }): one arm at least
switch_macro(t) ==
    /\ Ready(t)
    /\ \E T \in WTypes, s \in Shapes, b \in WBits(t), fs \in WBranchLists :
         /\ Len(fs) >= 1
         /\ \A i \in 1..Len(fs) :
              \E RefU \in CarrierTypes : Cismutable(T, fs[i].U, CarrierType(s, T), RefU)
         /\ Enter(t, SwitchCall("switch!", T, fs, Carrier(s, T, b)), "macro")

----------------------------------------------------------------------------
(* value, step by step *)

\* the U and RefU value is instantiated with by the thread's current call of it
CurU(t) ==
    IF call[t].op \in ValueOps THEN call[t].U ELSE call[t].branches[idx[t]].U

CurRefU(t) ==
    IF call[t].op \in ValueOps
    THEN call[t].RefU
    ELSE InferRefU(call[t].T, CurU(t), TypeOf(val[t]))

\* where value returns to
AfterValue(t) ==
    CASE call[t].op \in ValueOps -> "done"
      [] call[t].op = "switch" -> "dispatch_match"
      [] call[t].op = "switch!" -> "macro_match"

Other(t) == CHOOSE o \in Threads : Cardinality(Threads) > 1 => o # t

\* the comparison with T kept in a static that every thread's call writes
value_test_shared_T(t) ==
    /\ pc[t] = "value"
    /\ LET T == IF call[Other(t)].op # "-" THEN call[Other(t)].T ELSE call[t].T
       IN  pc' = [pc EXCEPT ![t] = IF SameType(T, CurU(t)) THEN "value_ok" ELSE "value_err"]
    /\ UNCHANGED <<call, val, idx, ret, tested, handled, holders, drops, transmutes>>

\* if TypeId::of::<T>() == TypeId::of::<U>()
value_test(t) ==
    /\ pc[t] = "value"
    /\ pc' = [pc EXCEPT ![t] = IF SameType(call[t].T, CurU(t)) THEN "value_ok" ELSE "value_err"]
    /\ UNCHANGED <<call, val, idx, ret, tested, handled, holders, drops, transmutes>>

\* Ok(unsafe { generic_transmute::<RefT, RefU>(val) })
value_ok(t) ==
    /\ pc[t] = "value_ok"
    /\ LET r == generic_transmute(val[t], CurRefU(t))
       IN  /\ ret' = [ret EXCEPT ![t] = Ok(r.to)]
           /\ drops' = [drops EXCEPT ![t] = @ + r.dropped]
    /\ transmutes' = [transmutes EXCEPT ![t] = @ + 1]
    /\ val' = [val EXCEPT ![t] = Moved]
    /\ holders' = [holders EXCEPT ![t] = (@ \ {"val"}) \cup {"ret"}]
    /\ pc' = [pc EXCEPT ![t] = AfterValue(t)]
    /\ UNCHANGED <<call, idx, tested, handled>>

\* the mismatch path handing back a rebuilt carrier instead of `val`
value_err_fresh(t) ==
    /\ pc[t] = "value_err"
    /\ ret' = [ret EXCEPT ![t] = Err(Carrier(val[t].shape, val[t].ty, 0))]
    /\ val' = [val EXCEPT ![t] = Moved]
    /\ holders' = [holders EXCEPT ![t] = (@ \ {"val"}) \cup {"ret"}]
    /\ pc' = [pc EXCEPT ![t] = AfterValue(t)]
    /\ UNCHANGED <<call, idx, tested, handled, drops, transmutes>>

\* Err(val)
value_err(t) ==
    /\ pc[t] = "value_err"
    /\ ret' = [ret EXCEPT ![t] = Err(val[t])]
    /\ val' = [val EXCEPT ![t] = Moved]
    /\ holders' = [holders EXCEPT ![t] = (@ \ {"val"}) \cup {"ret"}]
    /\ pc' = [pc EXCEPT ![t] = AfterValue(t)]
    /\ UNCHANGED <<call, idx, tested, handled, drops, transmutes>>

----------------------------------------------------------------------------
(* Branches::dispatch, step by step *)

\* impl Branches for (): Err(val)
dispatch_unit(t) ==
    /\ pc[t] = "dispatch"
    /\ call[t].branches = <<>>
    /\ ret' = [ret EXCEPT ![t] = Err(val[t])]
    /\ val' = [val EXCEPT ![t] = Moved]
    /\ holders' = [holders EXCEPT ![t] = (@ \ {"val"}) \cup {"ret"}]
    /\ pc' = [pc EXCEPT ![t] = "done"]
    /\ UNCHANGED <<call, idx, tested, handled, drops, transmutes>>

\* match $crate::value::<'a, T, $u, RefT, $refU>(val)
dispatch_branch(t) ==
    /\ pc[t] = "dispatch"
    /\ idx[t] <= Len(call[t].branches)
    /\ tested' = [tested EXCEPT ![t] = Append(@, idx[t])]
    /\ pc' = [pc EXCEPT ![t] = "value"]
    /\ UNCHANGED <<call, val, idx, ret, handled, holders, drops, transmutes>>

\* Ok(val) => Ok($f(val)) without the return: the handler runs on a copy of the carrier
\* and the next element's match, or the closing Err(val), follows
dispatch_ok_falls_through(t) ==
    /\ pc[t] = "dispatch_match"
    /\ ret[t].tag = "Ok"
    /\ handled' = [handled EXCEPT ![t] = Append(@, idx[t])]
    /\ IF idx[t] < Len(call[t].branches)
       THEN /\ val' = [val EXCEPT ![t] = call[t].arg]
            /\ ret' = [ret EXCEPT ![t] = NoResult]
            /\ holders' = [holders EXCEPT ![t] = (@ \ {"ret"}) \cup {"handler", "val"}]
            /\ idx' = [idx EXCEPT ![t] = @ + 1]
            /\ pc' = [pc EXCEPT ![t] = "dispatch"]
       ELSE /\ ret' = [ret EXCEPT ![t] = Err(call[t].arg)]
            /\ holders' = [holders EXCEPT ![t] = {"handler", "ret"}]
            /\ UNCHANGED <<val, idx>>
            /\ pc' = [pc EXCEPT ![t] = "done"]
    /\ UNCHANGED <<call, tested, drops, transmutes>>

\* Ok(val) => return Ok($f(val))
dispatch_ok(t) ==
    /\ pc[t] = "dispatch_match"
    /\ ret[t].tag = "Ok"
    /\ handled' = [handled EXCEPT ![t] = Append(@, idx[t])]
    /\ ret' = [ret EXCEPT ![t] = Ok(Apply(call[t].branches[idx[t]].f, ret[t].v))]
    /\ holders' = [holders EXCEPT ![t] = (@ \ {"ret"}) \cup {"handler"}]
    /\ pc' = [pc EXCEPT ![t] = "done"]
    /\ UNCHANGED <<call, val, idx, tested, drops, transmutes>>

\* Err(val) => val with no branch left: the mismatch is returned at once
dispatch_err_gives_up(t) ==
    /\ pc[t] = "dispatch_match"
    /\ ret[t].tag = "Err"
    /\ pc' = [pc EXCEPT ![t] = "done"]
    /\ UNCHANGED <<call, val, idx, ret, tested, handled, holders, drops, transmutes>>

\* Err(val) => val, then the next element's match, or the closing Err(val)
dispatch_err(t) ==
    /\ pc[t] = "dispatch_match"
    /\ ret[t].tag = "Err"
    /\ IF idx[t] < Len(call[t].branches)
       THEN /\ val' = [val EXCEPT ![t] = ret[t].v]
            /\ ret' = [ret EXCEPT ![t] = NoResult]
            /\ holders' = [holders EXCEPT ![t] = (@ \ {"ret"}) \cup {"val"}]
            /\ idx' = [idx EXCEPT ![t] = @ + 1]
            /\ pc' = [pc EXCEPT ![t] = "dispatch"]
       ELSE /\ ret' = [ret EXCEPT ![t] = Err(ret[t].v)]
            /\ UNCHANGED <<val, holders, idx>>
            /\ pc' = [pc EXCEPT ![t] = "done"]
    /\ UNCHANGED <<call, tested, handled, drops, transmutes>>

----------------------------------------------------------------------------
(* The expansion of switch!, step by step *)

\* match $crate::value_with($crate::Pair::<($source, $type)>, val)
macro_branch(t) ==
    /\ pc[t] = "macro"
    /\ idx[t] <= Len(call[t].branches)
    /\ tested' = [tested EXCEPT ![t] = Append(@, idx[t])]
    /\ pc' = [pc EXCEPT ![t] = "value"]
    /\ UNCHANGED <<call, val, idx, ret, handled, holders, drops, transmutes>>

\* Ok($name) => $expr, without the break: the loop goes on to the next arm
macro_ok_no_break(t) ==
    /\ pc[t] = "macro_match"
    /\ ret[t].tag = "Ok"
    /\ handled' = [handled EXCEPT ![t] = Append(@, idx[t])]
    /\ IF idx[t] < Len(call[t].branches)
       THEN /\ val' = [val EXCEPT ![t] = call[t].arg]
            /\ ret' = [ret EXCEPT ![t] = NoResult]
            /\ holders' = [holders EXCEPT ![t] = (@ \ {"ret"}) \cup {"handler", "val"}]
            /\ idx' = [idx EXCEPT ![t] = @ + 1]
            /\ pc' = [pc EXCEPT ![t] = "macro"]
       ELSE /\ ret' = [ret EXCEPT ![t] = Err(call[t].arg)]
            /\ holders' = [holders EXCEPT ![t] = {"handler", "ret"}]
            /\ UNCHANGED <<val, idx>>
            /\ pc' = [pc EXCEPT ![t] = "done"]
    /\ UNCHANGED <<call, tested, drops, transmutes>>

\* Ok($name) => break Ok($expr)
macro_ok(t) ==
    /\ pc[t] = "macro_match"
    /\ ret[t].tag = "Ok"
    /\ handled' = [handled EXCEPT ![t] = Append(@, idx[t])]
    /\ ret' = [ret EXCEPT ![t] = Ok(Apply(call[t].branches[idx[t]].f, ret[t].v))]
    /\ holders' = [holders EXCEPT ![t] = (@ \ {"ret"}) \cup {"handler"}]
    /\ pc' = [pc EXCEPT ![t] = "done"]
    /\ UNCHANGED <<call, val, idx, tested, drops, transmutes>>

\* Err(val) => val, then the next arm's match, or break Err(val)
macro_err(t) ==
    /\ pc[t] = "macro_match"
    /\ ret[t].tag = "Err"
    /\ IF idx[t] < Len(call[t].branches)
       THEN /\ val' = [val EXCEPT ![t] = ret[t].v]
            /\ ret' = [ret EXCEPT ![t] = NoResult]
            /\ holders' = [holders EXCEPT ![t] = (@ \ {"ret"}) \cup {"val"}]
            /\ idx' = [idx EXCEPT ![t] = @ + 1]
            /\ pc' = [pc EXCEPT ![t] = "macro"]
       ELSE /\ ret' = [ret EXCEPT ![t] = Err(ret[t].v)]
            /\ UNCHANGED <<val, holders, idx>>
            /\ pc' = [pc EXCEPT ![t] = "done"]
    /\ UNCHANGED <<call, tested, handled, drops, transmutes>>

----------------------------------------------------------------------------
(* The caller, after the call *)

\* the caller lets the Result go out of scope: an owned carrier in it is destructed
drop_result(t) ==
    /\ pc[t] = "done"
    /\ drops' = [drops EXCEPT ![t] =
                   IF "ret" \in holders[t] /\ ret[t].v.shape = "owned" THEN @ + 1 ELSE @]
    /\ holders' = [holders EXCEPT ![t] = @ \ {"ret"}]
    /\ pc' = [pc EXCEPT ![t] = "dropped"]
    /\ UNCHANGED <<call, val, idx, ret, tested, handled, transmutes>>

\* the caller's frame is gone: nothing of the call is left
finish(t) ==
    /\ pc[t] = "dropped"
    /\ pc' = [pc EXCEPT ![t] = "idle"]
    /\ call' = [call EXCEPT ![t] = NoCall]
    /\ val' = [val EXCEPT ![t] = Moved]
    /\ idx' = [idx EXCEPT ![t] = 1]
    /\ ret' = [ret EXCEPT ![t] = NoResult]
    /\ tested' = [tested EXCEPT ![t] = <<>>]
    /\ handled' = [handled EXCEPT ![t] = <<>>]
    /\ holders' = [holders EXCEPT ![t] = {}]
    /\ drops' = [drops EXCEPT ![t] = 0]
    /\ transmutes' = [transmutes EXCEPT ![t] = 0]

----------------------------------------------------------------------------
(* Specifications *)

InitThreads(T) ==
    /\ pc = [t \in T |-> "idle"]
    /\ call = [t \in T |-> NoCall]
    /\ val = [t \in T |-> Moved]
    /\ idx = [t \in T |-> 1]
    /\ ret = [t \in T |-> NoResult]
    /\ tested = [t \in T |-> <<>>]
    /\ handled = [t \in T |-> <<>>]
    /\ holders = [t \in T |-> {}]
    /\ drops = [t \in T |-> 0]
    /\ transmutes = [t \in T |-> 0]

Init == InitThreads(SeqThreads)

InitConc == InitThreads(ConcThreads)

Next ==
    \/ \E t \in Threads : owned(t)
    \/ \E t \in Threads : reference(t)
    \/ \E t \in Threads : mutable(t)
    \/ \E t \in Threads : value_call(t)
    \/ \E t \in Threads : value_with(t)
    \/ \E t \in Threads : switch_call(t)
    \/ \E t \in Threads : switch_macro(t)
    \/ \E t \in Threads : value_test(t)
    \/ \E t \in Threads : value_ok(t)
    \/ \E t \in Threads : value_err(t)
    \/ \E t \in Threads : dispatch_unit(t)
    \/ \E t \in Threads : dispatch_branch(t)
    \/ \E t \in Threads : dispatch_ok(t)
    \/ \E t \in Threads : dispatch_err(t)
    \/ \E t \in Threads : macro_branch(t)
    \/ \E t \in Threads : macro_ok(t)
    \/ \E t \in Threads : macro_err(t)
    \/ \E t \in Threads : drop_result(t)
    \/ \E t \in Threads : finish(t)

\* one caller
Spec == Init /\ [][Next]_vars

\* two callers on threads of their own, their steps interleaved
SpecConc == InitConc /\ [][Next]_vars

----------------------------------------------------------------------------
(* Properties *)

SwitchOps == {"switch", "switch!"}

\* the call has returned to its caller
Returned(t) == pc[t] \in {"done", "dropped"}

\* the call is under way
Running(t) == pc[t] \notin {"idle", "done", "dropped"}

\* the branches of fs whose target type is T
Matching(fs, T) == {i \in 1..Len(fs) : fs[i].U = T}

\* the first branch of fs whose target type is T
FirstMatch(fs, T) == CHOOSE i \in Matching(fs, T) : \A j \in Matching(fs, T) : i <= j

\* fs with its branches permuted by p
Permuted(fs, p) == [k \in 1..Len(fs) |-> fs[p[k]]]

\* the reorderings of fs that keep the branches whose target type is T in their relative order
Reorderings(fs, T) ==
    {Permuted(fs, p) : p \in
        {q \in [1..Len(fs) -> 1..Len(fs)] :
            /\ \A a, b \in 1..Len(fs) : a # b => q[a] # q[b]
            /\ \A a, b \in 1..Len(fs) :
                 (a < b /\ fs[q[a]].U = T /\ fs[q[b]].U = T) => q[a] < q[b]}}

\* C1: value::<T, T>(x), entered through value, value_with, owned, reference or mutable,
\* returns Ok, and the carrier in it is x: the same shape, the same type, the same bits
\* (the value of an owned carrier, the address of a reference).
C1_IdentityRoundTrip ==
    \A t \in Threads :
        (Returned(t) /\ call[t].op \in ValueOps /\ call[t].T = call[t].U)
            => /\ ret[t].tag = "Ok"
               /\ ret[t].v = call[t].arg

C1_Witness ==
    \E t \in Threads :
        /\ pc[t] = "done"
        /\ call[t].op = "reference"
        /\ call[t].T = "char" /\ call[t].U = "char"
        /\ call[t].arg.bits = 2
        /\ ret[t] = Ok(Carrier("ref", "char", 2))

\* C2: for T # U, value::<T, U>(x) returns Err(x), x as it was passed; it returns (the
\* mismatch is a Result, not a stop of the call) and no transmute was made on the way.
C2_MismatchIsNoOp ==
    \A t \in Threads :
        /\ (Returned(t) /\ call[t].op \in ValueOps /\ call[t].T # call[t].U)
             => /\ ret[t] = Err(call[t].arg)
                /\ transmutes[t] = 0
        /\ (call[t].op \in ValueOps /\ call[t].T # call[t].U /\ pc[t] # "idle")
             => pc[t] \in {"value", "value_err", "done", "dropped"}

C2_Witness ==
    \E t \in Threads :
        /\ pc[t] = "done"
        /\ call[t].op = "mutable"
        /\ call[t].T = "i32" /\ call[t].U = "char"
        /\ ret[t] = Err(Carrier("mut", "i32", 1))

\* C3: an owned carrier given to value or owned has one holder at every step of the call and
\* no destructor has run on it when the call returns, whichever way it returns; once the
\* caller has dropped the Result the destructor has run once.  On a reference carrier the
\* call and the drop of its Result run no destructor.
C3_DropExactlyOnce ==
    \A t \in Threads :
        call[t].op \in ValueOps =>
            /\ (Running(t) \/ pc[t] = "done")
                 => /\ drops[t] = 0
                    /\ Cardinality(holders[t]) = 1
            /\ pc[t] = "done" => holders[t] = {"ret"}
            /\ pc[t] = "dropped"
                 => /\ holders[t] = {}
                    /\ drops[t] = IF call[t].arg.shape = "owned" THEN 1 ELSE 0

C3_Witness ==
    \E t \in Threads :
        /\ pc[t] = "dropped"
        /\ call[t].op = "owned"
        /\ call[t].T = call[t].U
        /\ transmutes[t] = 1
        /\ drops[t] = 1

\* C4: when some branch's target type is T, switch returns Ok(h_i(carrier)) for the first
\* such branch i; value was called for the branches 1..i in that order and for no other,
\* and h_i is the only handler invoked.
C4_FirstMatchWins ==
    \A t \in Threads :
        (Returned(t) /\ call[t].op = "switch" /\ Matching(call[t].branches, call[t].T) # {})
            => LET i == FirstMatch(call[t].branches, call[t].T)
               IN  /\ ret[t] = Ok(Apply(call[t].branches[i].f, call[t].arg))
                   /\ tested[t] = [k \in 1..i |-> k]
                   /\ handled[t] = <<i>>

C4_Witness ==
    \E t \in Threads :
        /\ pc[t] = "done"
        /\ call[t].op = "switch"
        /\ call[t].T = "i32"
        /\ Len(call[t].branches) = 3
        /\ call[t].branches[1] = [U |-> "char", f |-> "f"]
        /\ call[t].branches[2] = [U |-> "i32", f |-> "f"]
        /\ call[t].branches[3] = [U |-> "i32", f |-> "g"]
        /\ handled[t] = <<2>>
        /\ ret[t].v.f = "f"

\* C5: when no branch's target type is T (the empty tuple included), switch returns
\* Err(carrier), the carrier as it was passed, and no handler is invoked.
C5_Exhaustion ==
    \A t \in Threads :
        (Returned(t) /\ call[t].op = "switch" /\ Matching(call[t].branches, call[t].T) = {})
            => /\ ret[t] = Err(call[t].arg)
               /\ handled[t] = <<>>
               /\ transmutes[t] = 0

C5_Witness ==
    /\ \E t \in Threads :
        /\ pc[t] = "done"
        /\ call[t].op = "switch"
        /\ call[t].T = "arr"
        /\ Len(call[t].branches) = 2
        /\ call[t].branches[1].U = "i32"
        /\ call[t].branches[2].U = "char"
        /\ tested[t] = <<1, 2>>
        /\ ret[t].tag = "Err"

\* C6: an expansion of switch! returns what Branches::dispatch returns for the same
\* carrier, source type and list of arms, and it evaluates the arm dispatch selects and
\* no other (none when dispatch returns Err).
C6_MacroEqualsFunction ==
    \A t \in Threads :
        (Returned(t) /\ call[t].op = "switch!")
            => /\ ret[t] = switch(call[t].arg, call[t].branches, call[t].T)
               /\ handled[t] =
                    IF Matching(call[t].branches, call[t].T) = {}
                    THEN <<>>
                    ELSE <<FirstMatch(call[t].branches, call[t].T)>>

C6_Witness ==
    \E t \in Threads :
        /\ pc[t] = "done"
        /\ call[t].op = "switch!"
        /\ Len(call[t].branches) = 2
        /\ call[t].branches[1].U = call[t].T
        /\ call[t].branches[2].U = call[t].T
        /\ call[t].branches[1].f # call[t].branches[2].f
        /\ ret[t].tag = "Ok"

\* C7: a carrier that a call returns, in Ok or in Err, and a carrier that switch or
\* switch! hands to a handler, has the shape of the carrier passed in: owned for owned,
\* & for &, &mut for &mut.
C7_ShapePreserved ==
    \A t \in Threads :
        /\ (ret[t].tag = "Err" \/ (ret[t].tag = "Ok" /\ pc[t] # "done" /\ pc[t] # "dropped"))
             => ret[t].v.shape = call[t].arg.shape
        /\ (Returned(t) /\ ret[t].tag = "Ok" /\ call[t].op \in ValueOps)
             => ret[t].v.shape = call[t].arg.shape
        /\ (Returned(t) /\ ret[t].tag = "Ok" /\ call[t].op \in SwitchOps)
             => ret[t].v.x.shape = call[t].arg.shape

C7_Witness ==
    \E t \in Threads :
        /\ pc[t] = "done"
        /\ call[t].op = "value"
        /\ call[t].arg.shape = "mut"
        /\ ret[t].tag = "Ok"
        /\ ret[t].v.shape = "mut"

\* C8: switch returns the same Result (the same handler applied to the same carrier, or
\* Err of the carrier) for every reordering of its branches that keeps the branches whose
\* target type is T in their relative order.
C8_NonMatchingOrderIrrelevant ==
    \A t \in Threads :
        (pc[t] = "done" /\ call[t].op = "switch")
            => \A fs \in Reorderings(call[t].branches, call[t].T) :
                 /\ switch(call[t].arg, fs, call[t].T) = ret[t]
                 /\ switch(call[t].arg, fs, call[t].T)
                      = switch(call[t].arg, call[t].branches, call[t].T)

C8_Witness ==
    \E t \in Threads :
        /\ pc[t] = "done"
        /\ call[t].op = "switch"
        /\ call[t].T = "char"
        /\ Len(call[t].branches) = 3
        /\ call[t].branches[1].U = "i32"
        /\ call[t].branches[2].U = "char"
        /\ call[t].branches[3].U = "arr"
        /\ Cardinality(Reorderings(call[t].branches, call[t].T)) = 6
        /\ ret[t].tag = "Ok"

\* C9: with two threads calling at once, their steps interleaved in every way, each call
\* returns what value or dispatch, as functions of the call's own arguments, give, and it
\* tried and handled the branches it tries and handles alone; a thread that is not in a
\* call holds nothing of its earlier calls.
C9_CallsDoNotInterfere ==
    \A t \in Threads :
        /\ (Returned(t) /\ call[t].op \in ValueOps)
             => ret[t] = value(call[t].T, call[t].U, call[t].RefU, call[t].arg)
        /\ (Returned(t) /\ call[t].op \in SwitchOps)
             => /\ ret[t] = switch(call[t].arg, call[t].branches, call[t].T)
                /\ Len(handled[t]) = IF ret[t].tag = "Ok" THEN 1 ELSE 0
                /\ tested[t] =
                     [k \in 1..(IF ret[t].tag = "Ok" THEN handled[t][1]
                                ELSE Len(call[t].branches)) |-> k]
        /\ pc[t] = "idle"
             => /\ call[t] = NoCall /\ val[t] = Moved /\ ret[t] = NoResult
                /\ tested[t] = <<>> /\ handled[t] = <<>> /\ holders[t] = {}

C9_Witness ==
    /\ Cardinality(Threads) = 2
    /\ \E t \in Threads, o \in Threads :
        /\ t # o
        /\ pc[t] = "done" /\ call[t].op = "switch" /\ ret[t].tag = "Ok"
        /\ call[t].T = "i32"
        /\ pc[o] = "value_ok" /\ call[o].op = "switch!"
        /\ call[o].T = "char"
        /\ idx[o] = 2

\* C10: at every step of switch and of switch! the carrier is in one place; when the call
\* returns it has either gone to one handler, invoked once, or come back in Err with no
\* handler invoked.
C10_LinearHandOff ==
    \A t \in Threads :
        call[t].op \in SwitchOps =>
            /\ pc[t] # "dropped" => Cardinality(holders[t]) = 1
            /\ Running(t) => handled[t] = <<>>
            /\ Returned(t) =>
                 \/ /\ ret[t].tag = "Ok"
                    /\ Len(handled[t]) = 1
                    /\ holders[t] = {"handler"}
                    /\ ret[t].v.x = call[t].arg
                 \/ /\ ret[t].tag = "Err"
                    /\ handled[t] = <<>>
                    /\ ret[t].v = call[t].arg
                    /\ holders[t] = IF pc[t] = "done" THEN {"ret"} ELSE {}

C10_Witness ==
    \E t \in Threads :
        /\ pc[t] = "macro_match"
        /\ call[t].op = "switch!"
        /\ idx[t] = 2
        /\ ret[t].tag = "Ok"
        /\ holders[t] = {"ret"}
        /\ call[t].arg.shape = "owned"

====
